---------------------------- MODULE Spec2Model ----------------------------
(***************************************************************************)
(* Model of src/main.py: the FastAPI backend "Site Service Bane API".      *)
(*                                                                         *)
(*   POST /api/chat  chat_endpoint  (with its inner generate_reply)        *)
(*   GET  /test      test_database                                         *)
(*                                                                         *)
(* A Python str is a sequence of characters; a character is a one-letter   *)
(* TLA+ string, except the two code points that str.lower() needs a name   *)
(* for: "U+0130" (LATIN CAPITAL LETTER I WITH DOT ABOVE), whose lower case *)
(* is the two code points "i" "U+0307" (COMBINING DOT ABOVE).              *)
(***************************************************************************)
EXTENDS Integers, Sequences, FiniteSets

VARIABLES
    environ,    \* os.environ: DATABASE_URL and DATABASE_NAME (None = unset)
    pc,         \* position of the handler that is running, "idle" when none
    body,       \* chat_endpoint: the ChatRequest being handled
    user_msg,   \* chat_endpoint: the local user_msg
    http,       \* what the framework sends back for the running call
    response,   \* test_database: the local dict response
    probe,      \* test_database: what the database module did in this call
    text,       \* generate_reply: its argument
    reply,      \* generate_reply: its return value
    seen,       \* observer: the reply literals returned so far
    pin         \* observer: one earlier chat call, messages and outcome

vars == <<environ, pc, body, user_msg, http, response, probe, text, reply, seen, pin>>

\* Python's None, where the other values are strings (dict fields, context,
\* os.getenv results).
None == "None"

\* A local that is not bound (its handler is not running, or has not reached
\* the assignment); a bound local is the one-element tuple of its value.
Unbound == <<>>
Bound(v) == <<v>>

(***************************************************************************)
(* Bounds of the model.                                                    *)
(***************************************************************************)
MaxPieces == 2        \* a classified text is made of at most this many pieces
MaxMsgs == 2          \* messages in one ChatRequest
MaxCollections == 11  \* names list_collection_names() may return
MaxErrLen == 51       \* characters in the text of a raised exception
MaxWatched == 2       \* messages in a ChatRequest of the two-call observation

(***************************************************************************)
(* Python str operations.                                                  *)
(***************************************************************************)
UPPERCASE == <<"A","B","C","D","E","F","G","H","I","J","K","L","M",
               "N","O","P","Q","R","S","T","U","V","W","X","Y","Z">>

LOWERCASE == <<"a","b","c","d","e","f","g","h","i","j","k","l","m",
               "n","o","p","q","r","s","t","u","v","w","x","y","z">>

WHITESPACE == {" ", "\t", "\n"}

\* The lower case of one character, as str.lower() maps it: a string, since
\* U+0130 lowers to two code points.
lower_char(c) ==
    IF \E i \in 1..Len(UPPERCASE) : UPPERCASE[i] = c
    THEN <<LOWERCASE[CHOOSE i \in 1..Len(UPPERCASE) : UPPERCASE[i] = c]>>
    ELSE IF c = "U+0130" THEN <<"i", "U+0307">>
    ELSE <<c>>

RECURSIVE lower(_)
lower(s) == IF s = <<>> THEN <<>> ELSE lower_char(Head(s)) \o lower(Tail(s))

RECURSIVE lstrip(_)
lstrip(s) == IF s # <<>> /\ Head(s) \in WHITESPACE THEN lstrip(Tail(s)) ELSE s

RECURSIVE rstrip(_)
rstrip(s) ==
    IF s # <<>> /\ s[Len(s)] \in WHITESPACE THEN rstrip(SubSeq(s, 1, Len(s) - 1)) ELSE s

strip(s) == rstrip(lstrip(s))

\* k in t
contains(t, k) == \E i \in 0..(Len(t) - Len(k)) : SubSeq(t, i + 1, i + Len(k)) = k

\* any(k in t for k in ks)
any_in(ks, t) == \E j \in 1..Len(ks) : contains(t, ks[j])

\* s[:n]
prefix(s, n) == SubSeq(s, 1, IF Len(s) < n THEN Len(s) ELSE n)

(***************************************************************************)
(* generate_reply: the keyword lists and the reply literals (the literals  *)
(* are abbreviated to ASCII; each stands for the whole Norwegian text).    *)
(***************************************************************************)
kontakt == <<"k","o","n","t","a","k","t">>
contact == <<"c","o","n","t","a","c","t">>
telefon == <<"t","e","l","e","f","o","n">>
epost == <<"e","p","o","s","t">>
email == <<"e","m","a","i","l">>
tilbud == <<"t","i","l","b","u","d">>
samferdsel == <<"s","a","m","f","e","r","d","s","e","l">>
bane == <<"b","a","n","e">>
jernbane == <<"j","e","r","n","b","a","n","e">>
rail == <<"r","a","i","l">>
tjeneste == <<"t","j","e","n","e","s","t","e">>
services == <<"s","e","r","v","i","c","e","s">>
hva_tilbyr == <<"h","v","a"," ","t","i","l","b","y","r">>
leverer_dere == <<"l","e","v","e","r","e","r"," ","d","e","r","e">>
referanse == <<"r","e","f","e","r","a","n","s","e">>
case == <<"c","a","s","e">>
prosjekt == <<"p","r","o","s","j","e","k","t">>
portfolio == <<"p","o","r","t","f","o","l","i","o">>

CONTACT_KEYWORDS == <<kontakt, contact, telefon, epost, email, tilbud>>
DOMAIN_KEYWORDS == <<samferdsel, bane, jernbane, rail>>
SERVICES_KEYWORDS == <<tjeneste, services, hva_tilbyr, leverer_dere>>
REFERENCES_KEYWORDS == <<referanse, case, prosjekt, portfolio>>

CONTACT_REPLY == "Takk for henvendelsen! Du kan kontakte oss for tilbud eller befaring. ..."
DOMAIN_REPLY == "Vi leverer tjenester innen samferdsel/bane: ..."
SERVICES_REPLY == "Vaare hovedtjenester omfatter: ..."
REFERENCES_REPLY == "Vi har erfaring fra en rekke leveranser i samferdselssektoren. ..."
GREETING_REPLY == "Hei! Hvordan kan vi hjelpe deg i dag?"
FALLBACK_REPLY == "Forstaar. Kan du beskrive litt mer konkret hva du trenger hjelp til ...?"

\* generate_reply with the domain rule tried before the contact rule.
generate_reply_domain_first(txt) ==
    LET t == lower(txt) IN
    IF any_in(DOMAIN_KEYWORDS, t) THEN DOMAIN_REPLY
    ELSE IF any_in(CONTACT_KEYWORDS, t) THEN CONTACT_REPLY
    ELSE IF any_in(SERVICES_KEYWORDS, t) THEN SERVICES_REPLY
    ELSE IF any_in(REFERENCES_KEYWORDS, t) THEN REFERENCES_REPLY
    ELSE IF Len(t) < 3 THEN GREETING_REPLY
    ELSE FALLBACK_REPLY

\* generate_reply with the references rule tried before the domain rule.
generate_reply_references_first(txt) ==
    LET t == lower(txt) IN
    IF any_in(CONTACT_KEYWORDS, t) THEN CONTACT_REPLY
    ELSE IF any_in(REFERENCES_KEYWORDS, t) THEN REFERENCES_REPLY
    ELSE IF any_in(DOMAIN_KEYWORDS, t) THEN DOMAIN_REPLY
    ELSE IF any_in(SERVICES_KEYWORDS, t) THEN SERVICES_REPLY
    ELSE IF Len(t) < 3 THEN GREETING_REPLY
    ELSE FALLBACK_REPLY

\* generate_reply with a reply of its own for "tilbud".
generate_reply_offer(txt) ==
    LET t == lower(txt) IN
    IF contains(t, tilbud) THEN "Vi sender gjerne et tilbud. ..."
    ELSE IF any_in(CONTACT_KEYWORDS, t) THEN CONTACT_REPLY
    ELSE IF any_in(DOMAIN_KEYWORDS, t) THEN DOMAIN_REPLY
    ELSE IF any_in(SERVICES_KEYWORDS, t) THEN SERVICES_REPLY
    ELSE IF any_in(REFERENCES_KEYWORDS, t) THEN REFERENCES_REPLY
    ELSE IF Len(t) < 3 THEN GREETING_REPLY
    ELSE FALLBACK_REPLY

generate_reply(txt) ==
    LET t == lower(txt) IN
    IF any_in(CONTACT_KEYWORDS, t) THEN CONTACT_REPLY
    ELSE IF any_in(DOMAIN_KEYWORDS, t) THEN DOMAIN_REPLY
    ELSE IF any_in(SERVICES_KEYWORDS, t) THEN SERVICES_REPLY
    ELSE IF any_in(REFERENCES_KEYWORDS, t) THEN REFERENCES_REPLY
    ELSE IF Len(t) < 3 THEN GREETING_REPLY
    ELSE FALLBACK_REPLY


(***************************************************************************)
(* POST /api/chat.                                                         *)
(***************************************************************************)
user == <<"u","s","e","r">>
USER == <<"U","S","E","R">>
assistant == <<"a","s","s","i","s","t","a","n","t">>

User == <<"U","s","e","r">>

Roles == {user, USER, User, assistant}

Contents == {
    <<" ">> \o kontakt \o <<" ">> \o bane \o <<"\n">>,
    bane,
    <<"\t", "h", "i", " ">>,
    <<" ", " ">>,
    <<"h", "a", "l", "l", "o">>,
    <<"U+0130", "U+0130">> }

ChatMessage == [role : Roles, content : Contents]

Contexts == {None, "prosjektleder"}

\* The sequences of at most n elements of S.
SeqsUpTo(S, n) == UNION {[1..k -> S] : k \in 0..n}

ChatRequest == [messages : SeqsUpTo(ChatMessage, MaxMsgs), context : Contexts]

\* The scan from the first message on: the earliest user message.
RECURSIVE earliest_user_msg(_)
earliest_user_msg(messages) ==
    IF messages = <<>> THEN <<>>
    ELSE IF lower(Head(messages).role) = user THEN strip(Head(messages).content)
    ELSE earliest_user_msg(Tail(messages))

\* Lines 48-53: the content, stripped, of the first message of the reversed
\* list whose lowered role is "user"; "" when the loop ends without a break.
RECURSIVE latest_user_msg(_)
latest_user_msg(messages) ==
    IF messages = <<>> THEN <<>>
    ELSE LET m == messages[Len(messages)] IN
         IF lower(m.role) = user THEN strip(m.content)
         ELSE latest_user_msg(SubSeq(messages, 1, Len(messages) - 1))

\* chat_endpoint without the check of lines 45-46.
chat_endpoint_unchecked(bodies) ==
    /\ pc = "idle"
    /\ \E b \in bodies :
        /\ body' = Bound(b)
        /\ user_msg' = Bound(latest_user_msg(b.messages))
        /\ text' = user_msg'
        /\ reply' = Bound(generate_reply(text'[1]))
        /\ http' = Bound([status |-> 200, json |-> [reply |-> reply'[1]]])
    /\ pc' = "chat_return"
    /\ UNCHANGED <<environ, response, probe>>

\* chat_endpoint classifying the context with the user message when the
\* request carries one.
chat_endpoint_with_context(bodies) ==
    /\ pc = "idle"
    /\ \E b \in bodies :
        /\ body' = Bound(b)
        /\ IF b.messages = <<>>
           THEN /\ http' = Bound([status |-> 400, json |-> [detail |-> "No messages provided"]])
                /\ UNCHANGED <<user_msg, text, reply>>
           ELSE /\ user_msg' = Bound(latest_user_msg(b.messages))
                /\ text' = IF b.context = None THEN user_msg'
                           ELSE Bound(user_msg'[1] \o <<" ">> \o prosjekt)
                /\ reply' = Bound(generate_reply(text'[1]))
                /\ http' = Bound([status |-> 200, json |-> [reply |-> reply'[1]]])
    /\ pc' = "chat_return"
    /\ UNCHANGED <<environ, response, probe>>

\* The whole handler, on a request drawn from bodies: HTTPException(400) on
\* an empty list, before any local is bound; ChatResponse(reply) otherwise.
chat_endpoint(bodies) ==
    /\ pc = "idle"
    /\ \E b \in bodies :
        /\ body' = Bound(b)
        /\ IF b.messages = <<>>
           THEN /\ http' = Bound([status |-> 400, json |-> [detail |-> "No messages provided"]])
                /\ UNCHANGED <<user_msg, text, reply>>
           ELSE /\ user_msg' = Bound(latest_user_msg(b.messages))
                /\ text' = user_msg'
                /\ reply' = Bound(generate_reply(text'[1]))
                /\ http' = Bound([status |-> 200, json |-> [reply |-> reply'[1]]])
    /\ pc' = "chat_return"
    /\ UNCHANGED <<environ, response, probe>>

\* The response is sent and the handler's locals are gone.
finish ==
    /\ pc \in {"chat_return", "test_return"}
    /\ pc' = "idle"
    /\ body' = Unbound /\ user_msg' = Unbound /\ text' = Unbound /\ reply' = Unbound
    /\ http' = Unbound /\ response' = Unbound /\ probe' = Unbound
    /\ UNCHANGED environ

(***************************************************************************)
(* GET /test.                                                              *)
(*                                                                         *)
(* The text of an exception is the sequence 1, 2, ..., n of its character  *)
(* positions; a formatted string f"<literal>{str(e)[:50]}" is the record   *)
(* of its literal and of the excerpt, and a plain literal has excerpt "".  *)
(* Exceptions are of class ImportError or of another class under           *)
(* Exception; both are caught by "except Exception".                       *)
(***************************************************************************)
Getenv == {None, "", "mongodb://localhost:27017"}

Environ == [DATABASE_URL : Getenv, DATABASE_NAME : Getenv]

ErrTexts == {[i \in 1..n |-> i] : n \in 0..MaxErrLen}

ExcClasses == {"ImportError", "Exception"}

\* list_collection_names() returns the names in the order the server gives.
Listings == {[i \in 1..n |-> i] : n \in 0..MaxCollections}
            \cup {[i \in 1..n |-> n + 1 - i] : n \in 0..MaxCollections}

fstring(literal, e) == [text |-> literal, excerpt |-> e]

\* What the database module does during one call of test_database:
\*   import      "raises"  from database import db raises exc
\*               "None"    db is None
\*               "db"      db is a handle
\*   name        "absent"  hasattr(db, 'name') is False
\*               "value"   db.name is the string db_name
\*               "raises"  reading db.name raises exc
\*   listing     "returns" list_collection_names() returns collections
\*               "raises"  list_collection_names() raises exc
NoExc == [class |-> "Exception", text |-> <<>>]

World(import, name, listing, exc, collections) ==
    [import |-> import, name |-> name, listing |-> listing, exc |-> exc,
     collections |-> collections]

Exceptions == [class : ExcClasses, text : ErrTexts]

Worlds ==
    {World("raises", "absent", "returns", e, <<>>) : e \in Exceptions}
    \cup {World("None", "absent", "returns", NoExc, <<>>)}
    \cup {World("db", "raises", "returns", e, <<>>) : e \in Exceptions}
    \cup {World("db", n, "raises", e, <<>>) : n \in {"absent", "value"}, e \in Exceptions}
    \cup {World("db", n, "returns", NoExc, c) : n \in {"absent", "value"}, c \in Listings}

db_name == "sitedb"

\* Lines 88-95.
default_response ==
    [backend |-> "Running",
     database |-> fstring("Not Available", <<>>),
     database_url |-> None,
     database_name |-> None,
     connection_status |-> "Not Connected",
     collections |-> <<>>]

\* The inner try without the slice [:10].
list_collections_all(r, w) ==
    IF w.listing = "returns"
    THEN [r EXCEPT !.collections = w.collections,
                   !.database = fstring("Connected & Working", <<>>)]
    ELSE [r EXCEPT !.database = fstring("Connected but Error: ", prefix(w.exc.text, 50))]

\* Lines 108-113: the inner try and its handler.
list_collections(r, w) ==
    IF w.listing = "returns"
    THEN [r EXCEPT !.collections = prefix(w.collections, 10),
                   !.database = fstring("Connected & Working", <<>>)]
    ELSE [r EXCEPT !.database = fstring("Connected but Error: ", prefix(w.exc.text, 50))]

\* Lines 99-115, the body of the outer try: the dict as the body leaves it,
\* and the exception that leaves the body, if one does.
try_body(r, w) ==
    IF w.import = "raises" THEN [response |-> r, raised |-> Bound(w.exc)]
    ELSE IF w.import = "None"
    THEN [response |-> [r EXCEPT !.database = fstring("Available but not initialized", <<>>)],
          raised |-> Unbound]
    ELSE LET r1 == [r EXCEPT !.database = fstring("Available", <<>>),
                             !.database_url = "Configured"]
         IN IF w.name = "raises" THEN [response |-> r1, raised |-> Bound(w.exc)]
            ELSE LET r2 == [r1 EXCEPT
                              !.database_name = IF w.name = "value" THEN db_name ELSE "Connected",
                              !.connection_status = "Connected"]
                 IN [response |-> list_collections(r2, w), raised |-> Unbound]

\* The outer try with its "except ImportError" clause alone.
except_clause_import_only(e) ==
    IF e.class = "ImportError" THEN "ImportError" ELSE ""

\* Lines 117-120: the clause of the outer try that handles exception e, the
\* first one whose class e is an instance of; "" when none is.
except_clause(e) ==
    IF e.class = "ImportError" THEN "ImportError"
    ELSE IF e.class \in ExcClasses THEN "Exception"
    ELSE ""

\* Lines 117-120: the dict after the handler that caught e.
handled(r, e) ==
    IF except_clause(e) = "ImportError"
    THEN [r EXCEPT !.database = fstring("Database module not found (run enable-database first)", <<>>)]
    ELSE [r EXCEPT !.database = fstring("Error: ", prefix(e.text, 50))]

\* The environment check with "is not None" for the truth of the value.
check_environment_is_not_none(r, env) ==
    [r EXCEPT
       !.database_url = IF env.DATABASE_URL # None THEN "Set" ELSE "Not Set",
       !.database_name = IF env.DATABASE_NAME # None THEN "Set" ELSE "Not Set"]

\* Lines 123-125.
check_environment(r, env) ==
    [r EXCEPT
       !.database_url = IF env.DATABASE_URL \notin {None, ""} THEN "Set" ELSE "Not Set",
       !.database_name = IF env.DATABASE_NAME \notin {None, ""} THEN "Set" ELSE "Not Set"]

\* The handler starts: lines 88-95.
test_database ==
    /\ pc = "idle"
    /\ response' = Bound(default_response)
    /\ pc' = "test_probe"
    /\ UNCHANGED <<environ, body, user_msg, http, probe, text, reply>>

\* Lines 97-120: the outer try with its handlers. An exception no clause
\* handles leaves the handler, and the framework answers 500.
test_probe ==
    /\ pc = "test_probe"
    /\ \E w \in Worlds :
        /\ probe' = Bound(w)
        /\ LET b == try_body(response[1], w) IN
           IF b.raised = Unbound
           THEN /\ response' = Bound(b.response)
                /\ pc' = "test_env"
                /\ UNCHANGED http
           ELSE IF except_clause(b.raised[1]) # ""
           THEN /\ response' = Bound(handled(b.response, b.raised[1]))
                /\ pc' = "test_env"
                /\ UNCHANGED http
           ELSE /\ response' = Bound(b.response)
                /\ http' = Bound([status |-> 500, json |-> [detail |-> "Internal Server Error"]])
                /\ pc' = "test_return"
    /\ UNCHANGED <<environ, body, user_msg, text, reply>>

\* Lines 122-127: the environment check and the return.
test_env ==
    /\ pc = "test_env"
    /\ response' = Bound(check_environment(response[1], environ))
    /\ http' = Bound([status |-> 200, json |-> response'[1]])
    /\ pc' = "test_return"
    /\ UNCHANGED <<environ, body, user_msg, probe, text, reply>>

(***************************************************************************)
(* The server: one call at a time, any call after any other.               *)
(***************************************************************************)
Init ==
    /\ environ \in Environ
    /\ pc = "idle"
    /\ body = Unbound /\ user_msg = Unbound /\ text = Unbound /\ reply = Unbound
    /\ http = Unbound /\ response = Unbound /\ probe = Unbound
    /\ seen = {} /\ pin = Unbound

Observers == <<seen, pin>>

Chat == chat_endpoint(ChatRequest) /\ UNCHANGED Observers
Test == test_database /\ UNCHANGED Observers
TestProbe == test_probe /\ UNCHANGED Observers
TestEnv == test_env /\ UNCHANGED Observers
Finish == finish /\ UNCHANGED Observers

Next == Chat \/ Test \/ TestProbe \/ TestEnv \/ Finish

Spec == Init /\ [][Next]_vars

(***************************************************************************)
(* generate_reply alone, on the texts made of at most MaxPieces pieces:    *)
(* every keyword, keywords in other cases, a keyword cut short, single     *)
(* characters and white space.                                             *)
(***************************************************************************)
Pieces ==
    {kontakt, contact, telefon, epost, email, tilbud,
     samferdsel, bane, jernbane, rail,
     tjeneste, services, hva_tilbyr, leverer_dere,
     referanse, case, prosjekt, portfolio,
     <<"K","O","N","T","A","K","T">>, <<"B","a","n","e">>, <<"P","r","o","s","j","e","k","t">>,
     <<"k","o","n","t","a","k">>,
     <<"h">>, <<"I">>, <<" ">>, <<"U+0130">>}

RECURSIVE concat(_)
concat(ps) == IF ps = <<>> THEN <<>> ELSE Head(ps) \o concat(Tail(ps))

Texts == {concat(ps) : ps \in SeqsUpTo(Pieces, MaxPieces)}

InitReply ==
    /\ environ = [DATABASE_URL |-> None, DATABASE_NAME |-> None]
    /\ pc = "generate_reply"
    /\ text \in {Bound(t) : t \in Texts}
    /\ reply = Unbound
    /\ body = Unbound /\ user_msg = Unbound
    /\ http = Unbound /\ response = Unbound /\ probe = Unbound
    /\ seen = {} /\ pin = Unbound

\* One call of generate_reply on the text at hand.
classify ==
    /\ pc = "generate_reply"
    /\ reply' = Bound(generate_reply(text[1]))
    /\ pc' = "generate_reply_return"
    /\ UNCHANGED <<environ, body, user_msg, http, response, probe, text>>

Classify == classify /\ UNCHANGED Observers

NextReply == Classify

SpecReply == InitReply /\ [][NextReply]_vars

(***************************************************************************)
(* generate_reply called again and again, each call on one piece or on the *)
(* empty text, with the observer seen collecting what the calls return.    *)
(***************************************************************************)
Samples == {<<>>} \cup Pieces

InitSeen ==
    /\ environ = [DATABASE_URL |-> None, DATABASE_NAME |-> None]
    /\ pc = "idle"
    /\ body = Unbound /\ user_msg = Unbound /\ text = Unbound /\ reply = Unbound
    /\ http = Unbound /\ response = Unbound /\ probe = Unbound
    /\ seen = {} /\ pin = Unbound

\* generate_reply is called on a text.
call ==
    /\ pc = "idle"
    /\ \E t \in Samples : text' = Bound(t)
    /\ pc' = "generate_reply"
    /\ UNCHANGED <<environ, body, user_msg, http, response, probe, reply>>

\* The call is over: text and the return value are gone.
return ==
    /\ pc = "generate_reply_return"
    /\ text' = Unbound /\ reply' = Unbound
    /\ pc' = "idle"
    /\ UNCHANGED <<environ, body, user_msg, http, response, probe>>

Call == call /\ UNCHANGED Observers
ClassifySeen == classify /\ seen' = seen \cup {reply'[1]} /\ UNCHANGED pin
Return == return /\ UNCHANGED Observers

NextSeen == Call \/ ClassifySeen \/ Return

SpecSeen == InitSeen /\ [][NextSeen]_vars

(***************************************************************************)
(* The server with the observer pin: at most once, the messages and the    *)
(* outcome of a chat call are pinned, to be compared with those of the     *)
(* calls that come later. Here the requests are made of WatchedMessage.    *)
(***************************************************************************)
WatchedMessage ==
    {[role |-> USER, content |-> <<" ">> \o kontakt \o <<" ">> \o bane \o <<"\n">>],
     [role |-> user, content |-> bane],
     [role |-> assistant, content |-> bane]}

WatchedRequest == [messages : SeqsUpTo(WatchedMessage, MaxWatched), context : Contexts]

\* The observer pins the call that has just been handled, or leaves it.
Pin ==
    \/ pin' = pin
    \/ pin = Unbound /\ pin' = Bound([messages |-> body'[1].messages, context |-> body'[1].context,
                                       http |-> http'[1]])

ChatWatched == chat_endpoint(WatchedRequest) /\ Pin /\ UNCHANGED seen

NextTwice == ChatWatched \/ Test \/ TestProbe \/ TestEnv \/ Finish

SpecTwice == Init /\ [][NextTwice]_vars

(***************************************************************************)
(* What the claims speak of, said without the code's own operators where   *)
(* the claim is about them.                                                *)
(***************************************************************************)
\* r is "user" in some case.
IsUserRole(r) == Len(r) = 4 /\ \A i \in 1..4 : r[i] \in {user[i], USER[i]}

\* The indices of the messages of ms whose role is "user" in some case.
UserIndices(ms) == {i \in 1..Len(ms) : IsUserRole(ms[i].role)}

Greatest(S) == CHOOSE i \in S : \A j \in S : j <= i

\* s is c without its leading and trailing white space.
IsTrimOf(s, c) ==
    \E i \in 1..(Len(c) + 1) : \E j \in (i - 1)..Len(c) :
        /\ s = SubSeq(c, i, j)
        /\ \A k \in 1..(i - 1) : c[k] \in WHITESPACE
        /\ \A k \in (j + 1)..Len(c) : c[k] \in WHITESPACE
        /\ s # <<>> => s[1] \notin WHITESPACE /\ s[Len(s)] \notin WHITESPACE

ChatReturned == pc = "chat_return"
Messages == body[1].messages
Answer == http[1].json

\* C1: a chat request with no messages ends in status 400 with the detail
\* "No messages provided", and neither user_msg nor the reply is computed; a
\* request with messages ends in status 200 with a reply.
C1_EmptyMessagesRejected ==
    ChatReturned =>
        IF Messages = <<>>
        THEN /\ http[1] = [status |-> 400, json |-> [detail |-> "No messages provided"]]
             /\ user_msg = Unbound /\ text = Unbound /\ reply = Unbound
        ELSE /\ http[1].status = 200
             /\ DOMAIN Answer = {"reply"}
             /\ reply # Unbound /\ Answer.reply = reply[1]

C1_Witness == ChatReturned /\ Messages = <<>> /\ http[1].status = 400

\* C2, as claimed: if some message with role "user" (any case) has a content
\* that contains "kontakt", the reply is the contact reply, wherever that
\* message is.
C2_AnyUserMessageWithKontakt ==
    ChatReturned /\ Messages # <<>> =>
        ((\E i \in UserIndices(Messages) : contains(Messages[i].content, kontakt))
            => Answer.reply = CONTACT_REPLY)

\* C2, amended: if the last message with role "user" (any case) has a content
\* that contains "kontakt", the reply is the contact reply, whatever other
\* keywords the content holds and whatever messages come before and after it.
C2_LatestUserMessageWithKontakt ==
    ChatReturned /\ Messages # <<>> /\ UserIndices(Messages) # {} =>
        (contains(Messages[Greatest(UserIndices(Messages))].content, kontakt)
            => Answer.reply = CONTACT_REPLY)

C2_Witness ==
    /\ ChatReturned /\ Len(Messages) = 2
    /\ UserIndices(Messages) = {1}
    /\ contains(Messages[1].content, kontakt) /\ contains(Messages[1].content, bane)
    /\ Answer.reply = CONTACT_REPLY

\* C4: the text classified is the trimmed content of the last message whose
\* role is "user" in some case; with no such message it is the empty string,
\* and the reply is the greeting, with status 200.
C4_LatestUserMessageClassified ==
    ChatReturned /\ Messages # <<>> =>
        /\ text # Unbound
        /\ IF UserIndices(Messages) = {}
           THEN text[1] = <<>> /\ http[1] = [status |-> 200, json |-> [reply |-> GREETING_REPLY]]
           ELSE IsTrimOf(text[1], Messages[Greatest(UserIndices(Messages))].content)

C4_Witness ==
    /\ ChatReturned /\ Len(Messages) = 2
    /\ Messages[1].role = user /\ Messages[2].role = USER
    /\ Messages[1].content # Messages[2].content
    /\ text[1] # Messages[2].content
    /\ text[1] # <<>>

\* C5, as claimed: when the trimmed text of the latest user message has fewer
\* than 3 characters the reply is the greeting, and when it has 3 or more and
\* holds no keyword the reply is the fallback.
C5_ShortTextGreeted ==
    ChatReturned /\ Messages # <<>> =>
        LET keyword == \/ any_in(CONTACT_KEYWORDS, lower(user_msg[1]))
                       \/ any_in(DOMAIN_KEYWORDS, lower(user_msg[1]))
                       \/ any_in(SERVICES_KEYWORDS, lower(user_msg[1]))
                       \/ any_in(REFERENCES_KEYWORDS, lower(user_msg[1]))
        IN /\ Len(user_msg[1]) < 3 => Answer.reply = GREETING_REPLY /\ ~keyword
           /\ Len(user_msg[1]) >= 3 /\ ~keyword => Answer.reply = FALLBACK_REPLY

TestReturned == pc = "test_return"

\* C6: GET /test ends in status 200 with the six fields of the payload,
\* whatever the database module does and whatever the environment holds.
C6_TestAlways200 ==
    TestReturned =>
        /\ http[1].status = 200
        /\ DOMAIN Answer = {"backend", "database", "database_url", "database_name",
                            "connection_status", "collections"}

C6_Witness ==
    /\ TestReturned /\ probe[1].import = "db" /\ probe[1].name = "raises"
    /\ probe[1].exc.class = "Exception" /\ Len(probe[1].exc.text) > 50
    /\ http[1].status = 200

\* C9: with a handle that is not None, when the enumeration returns n names
\* the field collections is the first min(10, n) of them in their order and
\* database says connected and working; when it raises, collections is
\* empty, connection_status is "Connected" and database holds the first
\* min(50, length) characters of the error text. With no module, or with a
\* None handle, collections is empty and connection_status "Not Connected".
C9_CollectionsAndStatus ==
    pc \in {"test_env", "test_return"} =>
        LET w == probe[1]
            r == response[1]
            n == Len(w.collections)
            m == IF n < 10 THEN n ELSE 10
            e == w.exc.text
            k == IF Len(e) < 50 THEN Len(e) ELSE 50
        IN /\ w.import = "db" /\ w.name # "raises" /\ w.listing = "returns" =>
                /\ r.collections = [i \in 1..m |-> w.collections[i]]
                /\ r.database = fstring("Connected & Working", <<>>)
           /\ w.import = "db" /\ w.name # "raises" /\ w.listing = "raises" =>
                /\ r.collections = <<>>
                /\ r.connection_status = "Connected"
                /\ r.database.excerpt = [i \in 1..k |-> e[i]]
           /\ \/ w.import = "raises" /\ w.exc.class = "ImportError"
              \/ w.import = "None"
              => r.collections = <<>> /\ r.connection_status = "Not Connected"

C9_Witness ==
    /\ TestReturned /\ probe[1].import = "db" /\ probe[1].listing = "returns"
    /\ Len(probe[1].collections) > 10
    /\ probe[1].collections[1] > probe[1].collections[2]
    /\ Len(Answer.collections) = 10

Markers == {"Set", "Not Set"}

\* C10: in the payload of GET /test, database_url and database_name are each
\* one of the two markers, "Set" exactly when the environment variable holds
\* a non-empty value, whatever the probe wrote there; and the environment
\* check leaves the four other fields as they were.
C10_EnvFieldsFromEnvironmentOnly ==
    /\ [](TestReturned /\ http[1].status = 200 =>
            /\ Answer.database_url \in Markers
            /\ Answer.database_name \in Markers
            /\ Answer.database_url = "Set" <=> environ.DATABASE_URL \notin {None, ""}
            /\ Answer.database_name = "Set" <=> environ.DATABASE_NAME \notin {None, ""})
    /\ [][pc = "test_env" /\ pc' = "test_return" =>
            /\ response'[1].backend = response[1].backend
            /\ response'[1].database = response[1].database
            /\ response'[1].connection_status = response[1].connection_status
            /\ response'[1].collections = response[1].collections]_vars

C10_Witness ==
    /\ TestReturned /\ probe[1].import = "db" /\ probe[1].name = "value"
    /\ environ.DATABASE_URL = "" /\ environ.DATABASE_NAME = "mongodb://localhost:27017"
    /\ Answer.database_url = "Not Set" /\ Answer.database_name = "Set"

Classified == pc = "generate_reply_return"

\* The condition of rule i of the classifier on the lowered text t.
RuleHolds(i, t) ==
    CASE i = 1 -> \E k \in {kontakt, contact, telefon, epost, email, tilbud} : contains(t, k)
      [] i = 2 -> \E k \in {samferdsel, bane, jernbane, rail} : contains(t, k)
      [] i = 3 -> \E k \in {tjeneste, services, hva_tilbyr, leverer_dere} : contains(t, k)
      [] i = 4 -> \E k \in {referanse, case, prosjekt, portfolio} : contains(t, k)
      [] i = 5 -> Len(t) < 3
      [] i = 6 -> TRUE

RuleReply ==
    <<CONTACT_REPLY, DOMAIN_REPLY, SERVICES_REPLY, REFERENCES_REPLY, GREETING_REPLY,
      FALLBACK_REPLY>>

\* C3: the reply is that of the lowest-numbered rule whose condition holds on
\* the lowered text; a text with "prosjekt" and "bane" gets the domain reply
\* unless rule 1 holds, and never the references reply; a text with a rule 1
\* keyword in any case gets the contact reply.
C3_FirstMatchWins ==
    Classified =>
        LET t == lower(text[1])
            first == CHOOSE i \in 1..6 : RuleHolds(i, t) /\ \A j \in 1..(i - 1) : ~RuleHolds(j, t)
        IN /\ reply[1] = RuleReply[first]
           /\ contains(text[1], prosjekt) /\ contains(text[1], bane) =>
                /\ reply[1] # REFERENCES_REPLY
                /\ ~RuleHolds(1, t) => reply[1] = DOMAIN_REPLY
           /\ \/ contains(text[1], kontakt)
              \/ contains(text[1], <<"K","O","N","T","A","K","T">>)
              => reply[1] = CONTACT_REPLY

C3_Witness ==
    /\ Classified /\ contains(text[1], prosjekt) /\ contains(text[1], bane)
    /\ reply[1] = DOMAIN_REPLY

\* C7, as claimed: the replies returned are at most five different literals.
C7_FiveReplies == Cardinality(seen) <= 5

\* C7, amended: the replies returned are among six literals, different from
\* one another, and no others.
C7_SixReplies ==
    /\ seen \subseteq {RuleReply[i] : i \in 1..6}
    /\ Cardinality({RuleReply[i] : i \in 1..6}) = 6
    /\ Classified => reply[1] \in seen

C7_Witness == seen = {RuleReply[i] : i \in 1..6} /\ Cardinality(seen) = 6

\* C8: a chat call with the messages of the pinned call has the outcome of
\* the pinned call, whatever the contexts of the two and whatever calls were
\* handled in between; and no step changes the environment.
C8_SameMessagesSameOutcome ==
    /\ [](ChatReturned /\ pin # Unbound /\ Messages = pin[1].messages => http[1] = pin[1].http)
    /\ [][environ' = environ]_vars

C8_Witness ==
    /\ ChatReturned /\ pin # Unbound
    /\ Messages = pin[1].messages /\ Messages # <<>>
    /\ body[1].context # pin[1].context
    /\ http[1] = pin[1].http

=============================================================================
